---------------------------- MODULE Spec2Model ----------------------------
(***************************************************************************)
(* process-image: tag!/tag_mut! addressing of a process image buffer and   *)
(* the scoped write accessors BitMut / WordMut / DWordMut / LWordMut.      *)
(*                                                                         *)
(* Bytes are naturals 0..255.  A bit value is a BOOLEAN.  A u16/u32/u64    *)
(* value is a sequence of 1/2/4 limbs of 16 bits, least significant limb   *)
(* first (TLC's integers are 32 bits wide), so every byte <-> integer      *)
(* conversion is computed by arithmetic.  Addresses are 0-based as in the  *)
(* source; the buffer is a sequence, so address a is element a + 1.        *)
(*                                                                         *)
(* A run is a program over one buffer that addresses a fixed table of tags *)
(* (as process_image! declares one), in one build (strict or relaxed       *)
(* alignment).  At most one write accessor is alive at a time: it holds    *)
(* the exclusive borrow of the buffer.                                     *)
(***************************************************************************)
EXTENDS Naturals, Sequences, FiniteSets

VARIABLES
    strict,   \* build: TRUE when feature allow_unaligned_tags is off
    tags,     \* the tags the program addresses
    buf,      \* the process image buffer
    acc,      \* the live write accessor, or NoAcc
    call,     \* the operation invoked last
    ret,      \* the value that operation returned
    panic,    \* "" or the panic message that ended the program
    done,     \* the accessor whose scope ended last, or NoAcc
    prev,     \* the accessor whose scope ended before the live or last one
              \* (history, kept only by runs that start with prev = NoAcc)
    view      \* the generated struct the program declares and constructs

vars == <<strict, tags, buf, acc, call, ret, panic, done, prev, view>>

(***************************** bounds **************************************)
MaxSets == 2    \* assignments through one accessor

(***************************** constants ***********************************)
Kinds == {"X", "B", "W", "D", "L"}
Multi == {"W", "D", "L"}

Width(k) == CASE k = "W" -> 2 [] k = "D" -> 4 [] k = "L" -> 8 [] OTHER -> 1

MsgWord == "Word address must be divisible by 2"
MsgDWord == "Double word address must be divisible by 4"
MsgLWord == "Long word address must be divisible by 8"
MsgIndex == "index out of bounds"
MsgRange == "range end index out of range for slice"

AlignMsgs == {MsgWord, MsgDWord, MsgLWord}

NoVal == [kind |-> "none", value |-> <<>>]
NoAcc == [kind |-> "none"]
NoTag == [kind |-> "none", addr |-> 0, bit |-> 0]
NoHist == [kind |-> "untracked"]
NoView == [kind |-> "none", size |-> 0, result |-> "none"]
NoCall == [op |-> "none", tag |-> NoTag]

(************************ byte and bit arithmetic **************************)
RECURSIVE Pow2(_)
Pow2(n) == IF n = 0 THEN 1 ELSE 2 * Pow2(n - 1)

\* 1 << index on u8
Shl1(index) == Pow2(index) % 256

RECURSIVE AndBits(_, _, _)
AndBits(x, y, n) ==
    IF n = 0 THEN 0
    ELSE (x % 2) * (y % 2) + 2 * AndBits(x \div 2, y \div 2, n - 1)

\* x & y on u8
BitAnd(x, y) == AndBits(x, y, 8)

\* !x on u8
BitNot(x) == 255 - x

\* x | y on u8
BitOr(x, y) == BitNot(BitAnd(BitNot(x), BitNot(y)))

\* u8::from(bool)
U8FromBool(v) == IF v THEN 1 ELSE 0

(************************ 16-bit limb arithmetic ***************************)
Zero(n) == [i \in 1..n |-> 0]

RECURSIVE MulAddFrom(_, _, _)
MulAddFrom(v, i, carry) ==
    IF i > Len(v) THEN <<>>
    ELSE LET t == v[i] * 256 + carry
         IN  <<t % 65536>> \o MulAddFrom(v, i + 1, t \div 65536)

\* v * 256 + b, wrapping at the width of v
MulAdd256(v, b) == MulAddFrom(v, 1, b)

RECURSIVE DivFrom(_, _, _)
DivFrom(v, i, rem) ==
    IF i = 0 THEN <<>>
    ELSE LET t == rem * 65536 + v[i]
         IN  DivFrom(v, i - 1, t % 256) \o <<t \div 256>>

\* v >> 8
Shr8(v) == DivFrom(v, Len(v), 0)

RECURSIVE HornerBe(_, _, _)
HornerBe(bytes, k, a) ==
    IF k > Len(bytes) THEN a
    ELSE HornerBe(bytes, k + 1, MulAdd256(a, bytes[k]))

RECURSIVE HornerLe(_, _, _)
HornerLe(bytes, k, a) ==
    IF k = 0 THEN a
    ELSE HornerLe(bytes, k - 1, MulAdd256(a, bytes[k]))

\* mutant of FromBeBytes: the bytes are taken least significant first
FromBeBytesLsbFirst(bytes) == HornerLe(bytes, Len(bytes), Zero(Len(bytes) \div 2))

\* uN::from_be_bytes: the first byte is the most significant
FromBeBytes(bytes) == HornerBe(bytes, 1, Zero(Len(bytes) \div 2))

\* uN::from_le_bytes: the first byte is the least significant
FromLeBytes(bytes) == HornerLe(bytes, Len(bytes), Zero(Len(bytes) \div 2))

RECURSIVE ToLeBytesN(_, _)
ToLeBytesN(v, w) ==
    IF w = 0 THEN <<>>
    ELSE <<v[1] % 256>> \o ToLeBytesN(Shr8(v), w - 1)

\* uN::to_le_bytes: the least significant byte comes first
ToLeBytes(v) == ToLeBytesN(v, 2 * Len(v))

(***************************** buffer access *******************************)
At(b, a) == b[a + 1]

Slice(b, a, w) == [k \in 1..w |-> b[a + k]]

\* mutant of Store: the bytes next to the region are cleared as well
StoreSpill(b, a, bytes) ==
    [k \in 1..Len(b) |->
        IF k > a /\ k <= a + Len(bytes) THEN bytes[k - a]
        ELSE IF k = a \/ k = a + Len(bytes) + 1 THEN 0 ELSE b[k]]

\* *self.buf = bytes: the buffer with the region at a replaced
Store(b, a, bytes) ==
    [k \in 1..Len(b) |->
        IF k > a /\ k <= a + Len(bytes) THEN bytes[k - a] ELSE b[k]]

(***************************** alignment ***********************************)
\* mutant of AlignmentAssert: every width is checked against 2
AlignmentAssertHalf(st, align, addr) ==
    IF ~st THEN ""
    ELSE CASE align = 2 -> IF addr % 2 = 0 THEN "" ELSE MsgWord
           [] align = 4 -> IF addr % 2 = 0 THEN "" ELSE MsgDWord
           [] align = 8 -> IF addr % 2 = 0 THEN "" ELSE MsgLWord

\* alignment_assert!: "" when the assertion passes, else the panic message.
\* With feature allow_unaligned_tags the macro expands to nothing.
AlignmentAssert(st, align, addr) ==
    IF ~st THEN ""
    ELSE CASE align = 2 -> IF addr % 2 = 0 THEN "" ELSE MsgWord
           [] align = 4 -> IF addr % 4 = 0 THEN "" ELSE MsgDWord
           [] align = 8 -> IF addr % 8 = 0 THEN "" ELSE MsgLWord

(***************************** accessors ***********************************)
\* BitMut::new
BitMutNew(byte, index) == BitAnd(byte, Shl1(index)) # 0

\* mutant of BitMutDrop: the byte is overwritten, not masked
BitMutDropOverwrite(byte, index, value) == (U8FromBool(value) * Pow2(index)) % 256

\* mutant of BitMutDrop: the bit is set without being cleared first
BitMutDropNoClear(byte, index, value) ==
    BitOr(byte, (U8FromBool(value) * Pow2(index)) % 256)

\* mutant of BitMutDrop: the value is or-ed in without the shift
BitMutDropNoShift(byte, index, value) ==
    BitOr(BitAnd(byte, BitNot(Shl1(index))), U8FromBool(value))

\* impl Drop for BitMut: the byte after  *buf &= !(1 << index);
\*                                       *buf |= u8::from(value) << index
BitMutDrop(byte, index, value) ==
    LET cleared == BitAnd(byte, BitNot(Shl1(index)))
    IN  BitOr(cleared, (U8FromBool(value) * Pow2(index)) % 256)

\* mutant of WordMutNew: the bytes are decoded most significant first
WordMutNewBe(bytes) == FromBeBytes(bytes)

\* WordMut::new
WordMutNew(bytes) == FromLeBytes(bytes)

\* mutant of WordMutDrop: the value is encoded most significant byte first
WordMutDropBe(value) == <<value[1] \div 256, value[1] % 256>>

\* impl Drop for WordMut
WordMutDrop(value) == ToLeBytes(value)

\* DWordMut::new
DWordMutNew(bytes) == FromLeBytes(bytes)

\* impl Drop for DWordMut
DWordMutDrop(value) == ToLeBytes(value)

\* LWordMut::new
LWordMutNew(bytes) == FromLeBytes(bytes)

\* impl Drop for LWordMut
LWordMutDrop(value) == ToLeBytes(value)

\* the value held by the accessor constructed over region
AccNew(k, region, index) ==
    CASE k = "X" -> BitMutNew(region[1], index)
      [] k = "B" -> region[1]
      [] k = "W" -> WordMutNew(region)
      [] k = "D" -> DWordMutNew(region)
      [] k = "L" -> LWordMutNew(region)

\* mutant of DerefMutEffect: every accessor writes through to the buffer
DerefMutEffectWriteThrough(b, a, v) ==
    [buf |-> Store(b, a.addr,
                   CASE a.kind = "X" -> <<BitMutDrop(At(b, a.addr), a.index, v)>>
                     [] a.kind = "B" -> <<v>>
                     [] OTHER -> ToLeBytes(v)),
     stores |-> a.stores + 1]

\* mutant of DerefMutEffect: a byte assignment is kept back like the others
DerefMutEffectDeferred(b, a, v) == [buf |-> b, stores |-> a.stores]

\* *x = v: the held value is replaced; only a byte tag (a plain &mut u8)
\* writes to the buffer
DerefMutEffect(b, a, v) ==
    IF a.kind = "B"
    THEN [buf |-> Store(b, a.addr, <<v>>), stores |-> a.stores + 1]
    ELSE [buf |-> b, stores |-> a.stores]

\* end of scope: the accessor's drop stores the encoded held value into its
\* region, unconditionally; a &mut u8 has no drop
DropEffect(b, a) ==
    LET region == Slice(b, a.addr, Width(a.kind))
    IN  CASE a.kind = "X" ->
               [buf |-> Store(b, a.addr, <<BitMutDrop(region[1], a.index, a.value)>>),
                stores |-> a.stores + 1]
          [] a.kind = "B" -> [buf |-> b, stores |-> a.stores]
          [] a.kind = "W" ->
               [buf |-> Store(b, a.addr, WordMutDrop(a.value)), stores |-> a.stores + 1]
          [] a.kind = "D" ->
               [buf |-> Store(b, a.addr, DWordMutDrop(a.value)), stores |-> a.stores + 1]
          [] a.kind = "L" ->
               [buf |-> Store(b, a.addr, LWordMutDrop(a.value)), stores |-> a.stores + 1]

(***************************** tag! ****************************************)
Fail(msg) == [panic |-> msg, ret |-> NoVal]
Return(k, v) == [panic |-> "", ret |-> [kind |-> k, value |-> v]]

\* mutant of TagRead: only the first byte of the range is bounds-checked and
\* the bytes past the end read as 0
TagReadStartOnly(st, b, t) ==
    IF t.addr >= Len(b) THEN Fail(MsgIndex)
    ELSE IF t.kind = "X" THEN Return("X", BitAnd(At(b, t.addr), Shl1(t.bit)) # 0)
    ELSE IF t.kind = "B" THEN Return("B", At(b, t.addr))
    ELSE LET m == AlignmentAssert(st, Width(t.kind), t.addr)
         IN  IF m # "" THEN Fail(m)
             ELSE Return(t.kind,
                         FromBeBytes([k \in 1..Width(t.kind) |->
                             IF t.addr + k <= Len(b) THEN b[t.addr + k] ELSE 0]))

\* tag!(buf, k, a[, i]): the value returned, or the panic
TagRead(st, b, t) ==
    IF t.kind \in {"X", "B"}
    THEN IF t.addr >= Len(b) THEN Fail(MsgIndex)
         ELSE IF t.kind = "X"
              THEN Return("X", BitAnd(At(b, t.addr), Shl1(t.bit)) # 0)
              ELSE Return("B", At(b, t.addr))
    ELSE LET m == AlignmentAssert(st, Width(t.kind), t.addr)
         IN  IF m # "" THEN Fail(m)
             ELSE IF t.addr + Width(t.kind) > Len(b) THEN Fail(MsgRange)
                  ELSE Return(t.kind, FromBeBytes(Slice(b, t.addr, Width(t.kind))))

(***************************** tag_mut! ************************************)
\* pre, held and stores record the accessor's history: the buffer at its
\* construction, the values assigned through it, its stores to the buffer
NewAcc(b, t) ==
    [kind |-> t.kind, addr |-> t.addr, index |-> t.bit,
     value |-> AccNew(t.kind, Slice(b, t.addr, Width(t.kind)), t.bit),
     pre |-> b, held |-> <<>>, stores |-> 0]

\* mutant of TagMutNew: the range is referenced before the alignment is
\* asserted
TagMutNewRangeFirst(st, b, t) ==
    IF t.addr + Width(t.kind) > Len(b)
    THEN [panic |-> IF t.kind \in {"X", "B"} THEN MsgIndex ELSE MsgRange, acc |-> NoAcc]
    ELSE LET m == IF t.kind \in {"X", "B"} THEN ""
                  ELSE AlignmentAssert(st, Width(t.kind), t.addr)
         IN  IF m # "" THEN [panic |-> m, acc |-> NoAcc]
             ELSE [panic |-> "", acc |-> NewAcc(b, t)]

\* tag_mut!(buf, k, a[, i]): the accessor constructed, or the panic
TagMutNew(st, b, t) ==
    IF t.kind \in {"X", "B"}
    THEN IF t.addr >= Len(b) THEN [panic |-> MsgIndex, acc |-> NoAcc]
         ELSE [panic |-> "", acc |-> NewAcc(b, t)]
    ELSE LET m == AlignmentAssert(st, Width(t.kind), t.addr)
         IN  IF m # "" THEN [panic |-> m, acc |-> NoAcc]
             ELSE IF t.addr + Width(t.kind) > Len(b)
                  THEN [panic |-> MsgRange, acc |-> NoAcc]
                  ELSE [panic |-> "", acc |-> NewAcc(b, t)]

(***************************** inputs **************************************)
Tag_(k, a, i) == [kind |-> k, addr |-> a, bit |-> i]

\* every tag of a buffer, up to the first address past its end
AllTags(b) ==
    {Tag_("X", a, i) : a \in 0..Len(b), i \in 0..7}
        \cup {Tag_(k, a, 0) : k \in {"B", "W", "D", "L"}, a \in 0..Len(b)}

\* values assigned through an accessor (from the tests and doc examples)
Vals(k) ==
    CASE k = "X" -> BOOLEAN
      [] k = "B" -> {42, 1}
      [] k = "W" -> {<<1337>>, <<51966>>}                      \* 1337, 0xcafe
      [] k = "D" -> {<<48879, 57005>>, <<61047, 49407>>}      \* 0xdeadbeef, 0xc0ffee77
      [] k = "L" -> {<<1, 0, 0, 0>>, <<65518, 192, 0, 32767>>} \* 1, 0x7fff000000c0ffee

\* buffers of the tests
BufSmoke == <<85, 170, 0, 255>>                               \* [0x55, 0xaa, 0x00, 0xff]
BufPi == <<128, 85, 222, 173>>                                \* [128, 0x55, 0xde, 0xad]
BufPanic == <<222, 173, 190, 239, 222, 173, 190, 239, 222, 173, 190, 239>>
BufRamp == <<1, 18, 35, 52, 69, 86, 103, 120, 137>>           \* 0x01, 0x12, 0x23, ...
TestBufs == {BufSmoke, BufPi, BufPanic, BufRamp}

\* tag tables of the tests
TestPi == {Tag_("X", 1, 0), Tag_("X", 1, 1), Tag_("X", 1, 2), Tag_("W", 2, 0), Tag_("B", 0, 0)}
TestPiPanic == {Tag_("W", 1, 0), Tag_("D", 2, 0), Tag_("L", 4, 0)}

\* programs: one tag of a test buffer; a test's table over its buffer
Programs ==
    UNION {{[buf |-> b, tags |-> {t}] : t \in AllTags(b)} : b \in TestBufs}
        \cup {[buf |-> BufPi, tags |-> TestPi], [buf |-> BufPanic, tags |-> TestPiPanic]}

\* programs over a single byte: every byte value, every bit
BitPrograms ==
    {[buf |-> <<b>>, tags |-> {Tag_("X", 0, i)}] : b \in 0..255, i \in 0..7}

(***************************** state machine *******************************)
InitOf(P) ==
    /\ strict \in BOOLEAN
    /\ \E p \in P : buf = p.buf /\ tags = p.tags
    /\ acc = NoAcc
    /\ call = NoCall
    /\ ret = NoVal
    /\ panic = ""
    /\ done = NoAcc
    /\ prev = NoHist
    /\ view = NoView

Init == InitOf(Programs)

InitBit == InitOf(BitPrograms)

Running == panic = ""

\* what a run remembers of an accessor that ended earlier: where it was, the
\* buffer at its construction and the value it held at its end
Ended(a) ==
    IF a.kind = "none" THEN NoAcc
    ELSE [kind |-> a.kind, addr |-> a.addr, index |-> a.index, pre |-> a.pre,
          value |-> IF a.held = <<>> THEN a.value ELSE a.held[Len(a.held)]]

\* let v = tag!(&buf, k, a[, i]);
Tag(t) ==
    /\ Running /\ acc.kind = "none"
    /\ LET r == TagRead(strict, buf, t)
       IN  panic' = r.panic /\ ret' = r.ret
    /\ call' = [op |-> "tag", tag |-> t]
    /\ UNCHANGED <<strict, tags, buf, acc, done, prev, view>>

\* let mut x = tag_mut!(&mut buf, k, a[, i]);
TagMut(t) ==
    /\ Running /\ acc.kind = "none"
    /\ LET r == TagMutNew(strict, buf, t)
       IN  panic' = r.panic /\ acc' = r.acc
    /\ call' = [op |-> "tag_mut", tag |-> t]
    /\ ret' = NoVal
    /\ done' = NoAcc
    /\ prev' = IF prev.kind = "untracked" THEN prev ELSE Ended(done)
    /\ UNCHANGED <<strict, tags, buf, view>>

TagOf(a) == Tag_(a.kind, a.addr, a.index)

\* let v = *x;
Deref ==
    /\ Running /\ acc.kind # "none"
    /\ ret' = [kind |-> acc.kind, value |-> acc.value]
    /\ call' = [op |-> "deref", tag |-> TagOf(acc)]
    /\ UNCHANGED <<strict, tags, buf, acc, panic, done, prev, view>>

\* *x = v;
DerefMut(v) ==
    /\ Running /\ acc.kind # "none" /\ Len(acc.held) < MaxSets
    /\ LET e == DerefMutEffect(buf, acc, v)
       IN  /\ buf' = e.buf
           /\ acc' = [acc EXCEPT !.value = v, !.held = Append(@, v), !.stores = e.stores]
    /\ call' = [op |-> "deref_mut", tag |-> TagOf(acc)]
    /\ ret' = NoVal
    /\ UNCHANGED <<strict, tags, panic, done, prev, view>>

\* the accessor's scope ends
Drop ==
    /\ Running /\ acc.kind # "none"
    /\ LET e == DropEffect(buf, acc)
       IN  /\ buf' = e.buf
           /\ done' = [acc EXCEPT !.stores = e.stores]
    /\ acc' = NoAcc
    /\ call' = [op |-> "drop", tag |-> TagOf(acc)]
    /\ ret' = NoVal
    /\ UNCHANGED <<strict, tags, panic, prev, view>>

Next ==
    \/ \E t \in tags : Tag(t)
    \/ \E t \in tags : TagMut(t)
    \/ Deref
    \/ \E k \in Kinds : acc.kind = k /\ \E v \in Vals(k) : DerefMut(v)
    \/ Drop

Spec == Init /\ [][Next]_vars

SpecBit == InitBit /\ [][Next]_vars

(***************************** process_image! ******************************)
\* tag_method!(.., const, k, a[, i]): the generated read method over self.buf
MethodRead(st, b, t) ==
    CASE t.kind = "X" ->
           IF t.addr >= Len(b) THEN Fail(MsgIndex)
           ELSE Return("X", BitAnd(At(b, t.addr), Shl1(t.bit)) # 0)
      [] t.kind = "B" ->
           IF t.addr >= Len(b) THEN Fail(MsgIndex) ELSE Return("B", At(b, t.addr))
      [] OTHER ->
           LET w == Width(t.kind)
               m == AlignmentAssert(st, w, t.addr)
           IN  IF m # "" THEN Fail(m)
               ELSE IF t.addr + w > Len(b) THEN Fail(MsgRange)
               ELSE Return(t.kind, FromBeBytes(Slice(b, t.addr, w)))

\* tag_method!(.., mut, k, a[, i]): the generated mutable method over self.buf
MethodMutNew(st, b, t) ==
    CASE t.kind \in {"X", "B"} ->
           IF t.addr >= Len(b) THEN [panic |-> MsgIndex, acc |-> NoAcc]
           ELSE [panic |-> "", acc |-> NewAcc(b, t)]
      [] OTHER ->
           LET w == Width(t.kind)
               m == AlignmentAssert(st, w, t.addr)
           IN  IF m # "" THEN [panic |-> m, acc |-> NoAcc]
               ELSE IF t.addr + w > Len(b) THEN [panic |-> MsgRange, acc |-> NoAcc]
               ELSE [panic |-> "", acc |-> NewAcc(b, t)]

\* mutant of TryInto: a slice longer than the array is accepted
TryIntoAtLeast(slice, size) == Len(slice) >= size

\* buf.try_into() to a reference to [u8; SIZE]: Ok exactly when the slice has
\* SIZE elements, Err(TryFromSliceError) otherwise
TryInto(slice, size) == Len(slice) = size

\* the generated structs: read view, write view, owned image
ViewKinds == {"ref", "mut", "owned"}

\* let pi = $ProcessImage::try_from(&buf[..]);   (an Err is a value)
TryFrom(k) ==
    /\ Running /\ acc.kind = "none"
    /\ view' = [kind |-> k, size |-> view.size,
                result |-> IF TryInto(buf, view.size) THEN "ok" ELSE "err"]
    /\ call' = [op |-> "try_from", tag |-> NoTag]
    /\ ret' = NoVal
    /\ UNCHANGED <<strict, tags, buf, acc, panic, done, prev>>

\* let pi = $ProcessImage::from(&array);   the argument is a [u8; SIZE]
From(k) ==
    /\ Running /\ acc.kind = "none"
    /\ Len(buf) = view.size
    /\ view' = [kind |-> k, size |-> view.size, result |-> "ok"]
    /\ call' = [op |-> "from", tag |-> NoTag]
    /\ ret' = NoVal
    /\ UNCHANGED <<strict, tags, buf, acc, panic, done, prev>>

\* let v = pi.field();   on a read view or an owned image
Method(t) ==
    /\ Running /\ acc.kind = "none"
    /\ view.result = "ok" /\ view.kind \in {"ref", "owned"}
    /\ LET r == MethodRead(strict, buf, t)
       IN  panic' = r.panic /\ ret' = r.ret
    /\ call' = [op |-> "method", tag |-> t]
    /\ UNCHANGED <<strict, tags, buf, acc, done, prev, view>>

\* let mut x = pi.field();   on a write view, or pi.as_mut().field() on an
\* owned image
MethodMut(t) ==
    /\ Running /\ acc.kind = "none"
    /\ view.result = "ok" /\ view.kind \in {"mut", "owned"}
    /\ LET r == MethodMutNew(strict, buf, t)
       IN  panic' = r.panic /\ acc' = r.acc
    /\ call' = [op |-> "method_mut", tag |-> t]
    /\ ret' = NoVal
    /\ done' = NoAcc
    /\ prev' = IF prev.kind = "untracked" THEN prev ELSE Ended(done)
    /\ UNCHANGED <<strict, tags, buf, view>>

\* the slices a program may hand to try_from: a test buffer, its proper
\* prefixes, and the buffer followed by one more byte
SlicesOf(b) == {SubSeq(b, 1, n) : n \in 0..Len(b)} \cup {Append(b, 0)}

\* programs that declare TestPi / TestPiOwned (SIZE 4) or TestPiPanic
\* (SIZE 12) and construct it from a slice
PiPrograms ==
    {[buf |-> s, tags |-> TestPi, size |-> Len(BufPi)] : s \in SlicesOf(BufPi)}
        \cup {[buf |-> s, tags |-> TestPiPanic, size |-> Len(BufPanic)] :
                  s \in SlicesOf(BufPanic)}

InitPi ==
    /\ strict \in BOOLEAN
    /\ \E p \in PiPrograms :
           /\ buf = p.buf /\ tags = p.tags
           /\ view = [NoView EXCEPT !.size = p.size]
    /\ acc = NoAcc
    /\ call = NoCall
    /\ ret = NoVal
    /\ panic = ""
    /\ done = NoAcc
    /\ prev = NoHist

NextPi ==
    \/ \E k \in ViewKinds : TryFrom(k)
    \/ \E k \in ViewKinds : From(k)
    \/ \E t \in tags : Method(t)
    \/ \E t \in tags : MethodMut(t)
    \/ Deref
    \/ \E k \in Kinds : acc.kind = k /\ \E v \in Vals(k) : DerefMut(v)
    \/ Drop

SpecPi == InitPi /\ [][NextPi]_vars

(***************************** two bits of one byte ************************)
\* initial bytes: every pair of bit positions has every pair of bit values
\* in one of them
PairBytes == {0, 255, 85, 170, 51, 204, 15, 240}

\* programs over a single byte that address two of its bits
PairPrograms ==
    {[buf |-> <<b>>, tags |-> {Tag_("X", 0, i), Tag_("X", 0, j)}] :
         b \in PairBytes, i \in 0..7, j \in 0..7} \ 
    {[buf |-> <<b>>, tags |-> {Tag_("X", 0, i)}] : b \in PairBytes, i \in 0..7}

\* the default build (the bit arms of tag! and tag_mut! hold no alignment
\* assertion); the run records the accessor that ended before the last
InitPair ==
    /\ strict = TRUE
    /\ \E p \in PairPrograms : buf = p.buf /\ tags = p.tags
    /\ acc = NoAcc
    /\ call = NoCall
    /\ ret = NoVal
    /\ panic = ""
    /\ done = NoAcc
    /\ prev = NoAcc
    /\ view = NoView

SpecPair == InitPair /\ [][Next]_vars

(***************************** claims **************************************)
\* bit j of a byte
Bit(byte, j) == (byte \div Pow2(j)) % 2

\* the big-endian interpretation of the w bytes at address a, as limbs:
\* limb j (least significant first) is bytes a+w-2j and a+w-2j+1
BeValue(b, a, w) ==
    [j \in 1..(w \div 2) |-> At(b, a + w - 2 * j) * 256 + At(b, a + w - 2 * j + 1)]

\* byte k (1 = most significant) of the w-byte value v
BeByte(v, w, k) ==
    LET limb == v[(w - k) \div 2 + 1]
    IN  IF (w - k) % 2 = 1 THEN limb \div 256 ELSE limb % 256

BeBytes(v, w) == [k \in 1..w |-> BeByte(v, w, k)]

Aligned(t) == t.addr % Width(t.kind) = 0

Scoped == {"X", "W", "D", "L"}

\* the value an accessor held last
LastHeld(a) == IF a.held = <<>> THEN a.value ELSE a.held[Len(a.held)]

AlignMsg(k) ==
    CASE k = "W" -> "Word address must be divisible by 2"
      [] k = "D" -> "Double word address must be divisible by 4"
      [] k = "L" -> "Long word address must be divisible by 8"

\* C1: after a word, double word or long word accessor at an aligned address
\* was assigned v and its scope ended, tag! of the same width at the same
\* address returns v.
C1_WriteThenRead ==
    (/\ done.kind \in Multi /\ Aligned(TagOf(done)) /\ done.held # <<>>
     /\ call.op = "tag" /\ call.tag = TagOf(done) /\ panic = "")
        => ret.value = LastHeld(done)

\* C2: the value held by a freshly constructed word, double word or long
\* word accessor at an aligned address equals what tag! of the same width
\* reads at that address.
C2_FreshEqualsRead ==
    (acc.kind \in Multi /\ Aligned(TagOf(acc)) /\ acc.held = <<>>)
        => acc.value = TagRead(strict, buf, TagOf(acc)).ret.value

\* C3: after a word, double word or long word accessor holding v ended its
\* scope, the bytes of its region hold v most significant byte first;
\* writing 1337 to the word at 2 of [0x80,0x55,0xDE,0xAD] leaves
\* [0x80,0x55,0x05,0x39].
C3_CommitBigEndian ==
    /\ done.kind \in Multi =>
         Slice(buf, done.addr, Width(done.kind)) = BeBytes(done.value, Width(done.kind))
    /\ (done.kind = "W" /\ done.addr = 2 /\ done.pre = BufPi /\ done.value = <<1337>>)
         => buf = <<128, 85, 5, 57>>

\* C4: tag! of a word, double word or long word at an aligned in-bounds
\* address returns the big-endian interpretation of the bytes there; the
\* word at 2 of [0x80,0x55,0xDE,0xAD] reads 0xDEAD.
C4_ReadBigEndian ==
    /\ (call.op = "tag" /\ call.tag.kind \in Multi /\ Aligned(call.tag) /\ panic = "")
         => /\ ret.kind = call.tag.kind
            /\ ret.value = BeValue(buf, call.tag.addr, Width(call.tag.kind))
    /\ (call.op = "tag" /\ call.tag = Tag_("W", 2, 0) /\ buf = BufPi)
         => ret.value = <<57005>>

C4_Witness ==
    /\ call.op = "tag" /\ call.tag = Tag_("W", 2, 0) /\ buf = BufPi
    /\ ret = [kind |-> "W", value |-> <<57005>>]

\* C5: when a bit accessor over bit i of a byte ends its scope, every other
\* bit of the byte has the value it had when the accessor was constructed.
C5_BitIsolation ==
    done.kind = "X" =>
        \A j \in 0..7 \ {done.index} :
            Bit(At(buf, done.addr), j) = Bit(At(done.pre, done.addr), j)

C5_Witness ==
    /\ done.kind = "X" /\ done.index = 3 /\ done.pre = <<170>>
    /\ done.held = <<FALSE>> /\ buf = <<162>>

\* C6: tag! of a bit returns TRUE exactly when bit i of the byte is set, and
\* after a bit accessor holding v ended its scope the bit reads v; writing
\* bit 7 of a zero byte TRUE leaves 0x80.
C6_BitReadWrite ==
    /\ (call.op = "tag" /\ call.tag.kind = "X" /\ panic = "")
         => (ret.value <=> Bit(At(buf, call.tag.addr), call.tag.bit) = 1)
    /\ done.kind = "X"
         => /\ TagRead(strict, buf, TagOf(done)).ret.value = LastHeld(done)
            /\ Bit(At(buf, done.addr), done.index) = U8FromBool(LastHeld(done))
    /\ (done.kind = "X" /\ done.index = 7 /\ At(done.pre, done.addr) = 0 /\ done.value)
         => At(buf, done.addr) = 128

C6_Witness ==
    /\ done.kind = "X" /\ done.index = 7 /\ done.pre = <<0>> /\ done.held = <<TRUE>>
    /\ buf = <<128>>
    /\ call.op = "tag" /\ call.tag = Tag_("X", 0, 7) /\ ret.value = TRUE

\* C7: for every accessor variant, after the accessor was assigned N >= 0
\* values and its scope ended, the field in the buffer equals the value held
\* last (the value decoded at construction when N = 0).
C7_LastValueCommitted ==
    done.kind \in Scoped =>
        TagRead(strict, buf, TagOf(done)).ret.value = LastHeld(done)

\* C8: an accessor stores into the buffer exactly once, when its scope ends:
\* while it is alive the buffer is as it was at construction, however the
\* held value was read or assigned, and the store at scope end happens also
\* when nothing was assigned.
C8_SingleWriteAtScopeEnd ==
    /\ acc.kind \in Scoped => (buf = acc.pre /\ acc.stores = 0)
    /\ done.kind \in Scoped => done.stores = 1

C8_Witness ==
    /\ done.kind = "D" /\ Len(done.held) = 2 /\ done.stores = 1 /\ buf # done.pre

\* C9: in strict mode tag! and tag_mut! of a word, double word or long word
\* at an address not divisible by the width panic with the message naming
\* the divisor, construct nothing and leave the buffer unchanged; bit and
\* byte tags never panic for alignment.
C9_StrictAlignment ==
    [][call'.op \in {"tag", "tag_mut"} =>
         /\ (strict /\ call'.tag.kind \in Multi /\ ~Aligned(call'.tag))
              => /\ panic' = AlignMsg(call'.tag.kind)
                 /\ buf' = buf
                 /\ acc'.kind = "none"
                 /\ ret' = NoVal
         /\ call'.tag.kind \in {"X", "B"} => panic' \notin AlignMsgs]_vars

C9_Witness ==
    /\ strict /\ buf = BufPanic
    /\ call = [op |-> "tag_mut", tag |-> Tag_("D", 2, 0)]
    /\ panic = "Double word address must be divisible by 4"
    /\ acc.kind = "none"

\* C10: in relaxed mode tag! of a word, double word or long word at any
\* in-bounds address returns the big-endian interpretation of the bytes
\* there, and a value written through the accessor at that address is what
\* tag! then reads.
C10_RelaxedReadWrite ==
    ~strict =>
        /\ (call.op = "tag" /\ call.tag.kind \in Multi
            /\ call.tag.addr + Width(call.tag.kind) <= Len(buf))
             => /\ panic = ""
                /\ ret.value = BeValue(buf, call.tag.addr, Width(call.tag.kind))
        /\ (done.kind \in Multi /\ done.held # <<>>
            /\ call.op = "tag" /\ call.tag = TagOf(done))
             => ret.value = LastHeld(done)

\* the byte range of tag t is not wholly inside buffer b
OutOfBounds(b, t) == t.addr + Width(t.kind) > Len(b)

\* C11: tag! and tag_mut! of a tag whose byte range is not wholly inside the
\* buffer panic (with a bounds panic, unless the alignment assertion failed
\* first), return no value, construct no accessor and leave every byte of
\* the buffer as it was, also when only the last bytes of the range are
\* outside.
C11_BoundsViolation ==
    [][(call'.op \in {"tag", "tag_mut"} /\ OutOfBounds(buf, call'.tag)) =>
         /\ panic' # ""
         /\ (call'.tag.kind \in {"X", "B"} => panic' = MsgIndex)
         /\ (call'.tag.kind \in Multi /\ (~strict \/ Aligned(call'.tag)))
              => panic' = MsgRange
         /\ ret' = NoVal
         /\ acc'.kind = "none"
         /\ buf' = buf]_vars

C11_Witness ==
    /\ ~strict /\ buf = BufPi /\ panic = MsgRange /\ acc.kind = "none"
    /\ call = [op |-> "tag", tag |-> Tag_("W", 3, 0)]

\* C12: try_from of a slice returns an error value, without panicking,
\* exactly when the slice's length differs from the declared SIZE (shorter
\* or longer), and a view or image when it is equal; from of an array never
\* fails.
C12_SizeMismatch ==
    /\ call.op = "try_from" =>
         /\ panic = ""
         /\ view.result = IF Len(buf) = view.size THEN "ok" ELSE "err"
    /\ call.op = "from" => panic = "" /\ view.result = "ok"

C12_Witness ==
    /\ call.op = "try_from" /\ view.kind = "ref" /\ view.result = "err"
    /\ view.size = 4 /\ Len(buf) = 5 /\ panic = ""

\* C13: two bit accessors on distinct bits i and j of one byte, run one
\* after the other (either order), do not clobber each other: after the
\* second one ends, bit i holds the value the first one held last, bit j the
\* value the second one held last, and the six other bits are as they were
\* before the first accessor was constructed.
C13_SequentialBitWrites ==
    (/\ prev.kind = "X" /\ done.kind = "X"
     /\ prev.addr = done.addr /\ prev.index # done.index) =>
        /\ Bit(At(buf, done.addr), prev.index) = U8FromBool(prev.value)
        /\ Bit(At(buf, done.addr), done.index) = U8FromBool(LastHeld(done))
        /\ \A n \in 0..7 : n \notin {prev.index, done.index} =>
               Bit(At(buf, done.addr), n) = Bit(At(prev.pre, done.addr), n)

C13_Witness ==
    /\ prev.kind = "X" /\ prev.index = 7 /\ prev.pre = <<85>> /\ prev.value = TRUE
    /\ done.kind = "X" /\ done.index = 0 /\ done.held = <<FALSE>>
    /\ buf = <<212>>

\* C14: a byte write is a plain mutable reference: an assignment of v through
\* tag_mut!(B, a) makes buf[a] = v at once (while the reference is alive, no
\* commit at scope end), a following byte read of a returns v, and no other
\* byte of the buffer changes.
C14_ByteWriteDirect ==
    /\ \A x \in {acc, done} :
         (x.kind = "B" /\ x.held # <<>>) =>
            /\ At(buf, x.addr) = LastHeld(x)
            /\ Len(buf) = Len(x.pre)
            /\ \A n \in 0..(Len(buf) - 1) : n # x.addr => At(buf, n) = At(x.pre, n)
    /\ (/\ done.kind = "B" /\ done.held # <<>>
        /\ call.op = "tag" /\ call.tag = TagOf(done)) =>
            panic = "" /\ ret.kind = "B" /\ ret.value = LastHeld(done)

C14_Witness ==
    /\ done.kind = "B" /\ done.addr = 0 /\ done.pre = BufPi /\ done.held = <<1>>
    /\ call.op = "tag" /\ call.tag = Tag_("B", 0, 0) /\ ret.kind = "B" /\ ret.value = 1
    /\ buf = <<1, 85, 222, 173>>

\* C15: the descriptor layer agrees with direct addressing: after writes
\* through the generated mutable methods have completed, a generated read
\* method returns what tag! with the same type and address returns on the
\* same buffer, and that value is the last one written to the field.
C15_DescriptorAgreesDirect ==
    (call.op = "method" /\ panic = "") =>
        /\ TagRead(strict, buf, call.tag) = [panic |-> "", ret |-> ret]
        /\ (done.kind # "none" /\ TagOf(done) = call.tag /\ done.held # <<>>)
             => ret.value = LastHeld(done)

\* C16: an accessor constructed at the address (and bit index) where an
\* accessor has just ended its scope starts out holding the value that one
\* held at its end.
C16_AccessorRoundTrip ==
    [][(/\ done.kind \in Scoped
        /\ call'.op = "tag_mut" /\ call'.tag = TagOf(done)) =>
           /\ panic' = ""
           /\ acc'.kind = done.kind /\ acc'.held = <<>>
           /\ acc'.value = LastHeld(done)]_vars

C16_Witness ==
    /\ call.op = "tag_mut" /\ acc.kind = "L" /\ acc.held = <<>>
    /\ acc.value = <<65518, 192, 0, 32767>>
    /\ At(acc.pre, acc.addr) = 238

\* C17: an accessor that is constructed and whose scope ends without an
\* assignment through it leaves every byte of the buffer as it was, although
\* its commit still runs.
C17_UntouchedIdentity ==
    (done.kind \in Scoped /\ done.held = <<>>) =>
        done.stores = 1 /\ buf = done.pre

C17_Witness ==
    /\ done.kind = "W" /\ done.addr = 2 /\ done.held = <<>> /\ done.stores = 1
    /\ done.value = <<44510>> /\ buf = BufPi

\* C18: when a W/D/L accessor over the byte range a..a+W-1 ends its scope,
\* only bytes of that range may have changed: every byte outside it, before
\* and after, has the value it had, and the buffer has the length it had.
C18_CommitFrame ==
    done.kind \in Multi =>
        /\ Len(buf) = Len(done.pre)
        /\ \A n \in 0..(Len(buf) - 1) :
               (n < done.addr \/ n >= done.addr + Width(done.kind))
                   => At(buf, n) = At(done.pre, n)

C18_Witness ==
    /\ done.kind = "D" /\ done.addr = 4 /\ done.pre = BufPanic
    /\ done.held = << <<48879, 57005>> >>
    /\ buf = <<222, 173, 190, 239, 239, 190, 173, 222, 222, 173, 190, 239>>

\* C19: in the strict build the alignment assertion runs before the byte
\* range is referenced, for tag! and for tag_mut!: an address that is both
\* unaligned and out of bounds fails with the alignment message, not a bounds
\* panic; and every failure happens in tag! or tag_mut! itself, while no
\* accessor is alive, and constructs none.
C19_ValidationOrder ==
    [][/\ (/\ strict /\ call'.op \in {"tag", "tag_mut"}
           /\ call'.tag.kind \in Multi
           /\ ~Aligned(call'.tag) /\ OutOfBounds(buf, call'.tag))
            => panic' = AlignMsg(call'.tag.kind)
       /\ (panic = "" /\ panic' # "")
            => /\ call'.op \in {"tag", "tag_mut"}
               /\ acc.kind = "none" /\ acc'.kind = "none"]_vars

C19_Witness ==
    /\ strict /\ buf = BufRamp /\ panic = MsgDWord /\ acc.kind = "none"
    /\ call = [op |-> "tag_mut", tag |-> Tag_("D", 7, 0)]

=============================================================================
